---- MODULE Spec2Model ----
(***************************************************************************)
(* A model of dsnt-pose2d's metric reporting:                              *)
(*   - PCKhEvaluator (src/dsnt/eval.py): seventeen average meters fed by   *)
(*     the masked, thresholded joint distances of each batch;              *)
(*   - the folder output (src/tele/output/folder.py): FolderOutput,        *)
(*     JSONCell and GrowingJSONCell writing JSON files into a directory;   *)
(*   - the meters and the registry built by Reporting, and main of         *)
(*     src/src/dsnt/bin/train.py with its epoch loop.                      *)
(* SpecEval drives the evaluator, SpecFolder the folder output, SpecTele   *)
(* the registry's meters, and SpecTrain is main.                           *)
(***************************************************************************)
EXTENDS Integers, Sequences, FiniteSets, TLC

VARIABLES
  meters,      \* PCKhEvaluator.meters: meter name -> AverageValueMeter state
  evalPc,      \* "idle", or the PCKhEvaluator method that has just run
  evalArgs,    \* the batch handed to the add that has just run, else <<>>
  entryMeters, \* the meters as they were on entry to the call that has just run
  cellList,    \* FolderOutput.cell_list: the (meter names, cell) pairs
  dirExists,   \* whether the directory FolderOutput.dir_path exists on disk
  files,       \* path -> content of the file on disk
  cellDir,     \* FolderCell.dir_path of each cell of cell_list
  prepared,    \* how prepare went in this process: "no", "ok" or "failed"
  pc,          \* "idle", "writing" (a render holds its file open for
               \* writing), "returned" or "down" (no process runs)
  call,        \* the folder call that is running or has just returned
  result,      \* "ok" or the exception that call raised
  mem,         \* file_path and values of the render that is writing
  entry,       \* the disk and the cells as they were on entry to call
  rendered,    \* the meter values of every growing render that succeeded
  incarnation, \* how many times the process has been started again
  foreign,     \* whether something other than the cell has written the log
  tel,         \* Reporting.telemetry: key -> meter, << >> before it is built
  best_val_acc_meter, \* the MaxValueMeter of main, train.py:307
  telPc,       \* "idle", or "returned" after a call on a meter or on tel
  telCall,     \* that call: operation, key, argument and return value
  entryTel,    \* tel and best_val_acc_meter on entry to that call
  added,       \* per loss meter, what has been added since the last reset
  accAdded,    \* every value added to best_val_acc_meter, in call order
  evaluatorKeys, \* the keys of PCKhEvaluator.meters as main finds them
  train_eval,  \* train_eval.meters of main, train.py:240
  val_eval,    \* val_eval.meters of main, train.py:241
  exp_out_dir, \* the output directory of the run, NoDir when args.out_dir is unset
  showoff,     \* whether args.showoff is set
  loaders,     \* len(train_loader) and len(val_loader)
  dpc,         \* where main stands
  epoch,       \* the loop variable of train.py:444
  batch_i,     \* how many batches of the running pass are done
  loss,        \* loss.data[0] of the last batch
  error,       \* the exception that has ended main, else "none"
  sinks,       \* the sinks registered with tel, in registration order
  checkpoints, \* what model.pth and model-best.pth hold
  stepLog,     \* what the last tel.step() rendered
  failedSteps  \* in how many calls of tel.step() a render has raised

evalVars == <<meters, evalPc, evalArgs, entryMeters>>

folderVars == <<cellList, dirExists, files, cellDir, prepared, pc, call,
                result, mem, entry, rendered, incarnation, foreign>>

teleVars == <<tel, best_val_acc_meter, telPc, telCall, entryTel, added,
              accAdded>>

trainVars == <<evaluatorKeys, train_eval, val_eval, exp_out_dir, showoff,
               loaders, dpc, epoch, batch_i, loss, error, sinks, checkpoints,
               stepLog, failedSteps>>

vars == <<evalVars, folderVars, teleVars, trainVars>>

(***************************************************************************)
(* PCKhEvaluator                                                           *)
(***************************************************************************)

\* eval.py:6-10. Python lists are 0-based: JOINT_NAMES[j] is JointName(j).
JOINT_NAMES ==
  << "rankle", "rknee", "rhip", "lhip", "lknee", "lankle", "pelvis", "thorax",
     "upperneck", "headtop", "rwrist", "relbow", "rshoulder", "lshoulder",
     "lelbow", "lwrist" >>

\* The table read one place too far, wrapping at its end.
JointName_Shifted(j) == JOINT_NAMES[((j + 1) % Len(JOINT_NAMES)) + 1]

JointName(j) == JOINT_NAMES[j + 1]

JointNameSet == { JOINT_NAMES[i] : i \in 1..Len(JOINT_NAMES) }

\* The keys __init__ puts into self.meters: 'all', then one per joint name.
MeterNames == {"all"} \cup JointNameSet

\* torchnet's AverageValueMeter keeps the number of observations and their
\* sum; value() is sum / n, not-a-number when n = 0.
NewMeter == [n |-> 0, sum |-> 0]

MeterAdd(m, value) == [n |-> m.n + 1, sum |-> m.sum + value]

\* A reset that clears the sum and keeps the count.
MeterReset_SumOnly(m) == [n |-> m.n, sum |-> 0]

MeterReset(m) == [n |-> 0, sum |-> 0]

\* __init__, eval.py:12-17.
EvaluatorInit == [name \in MeterNames |-> NewMeter]

\* torch.dist(target[b, j], pred[b, j]): the Euclidean distance, kept squared
\* so that it stays an integer.
SquaredDist(p, q) ==
  (p[1] - q[1]) * (p[1] - q[1]) + (p[2] - q[2]) * (p[2] - q[2])

\* The comparison made strict: a distance of exactly half a head is a miss.
Thresholded_Strict(predPt, targetPt, headLength) ==
  IF 4 * SquaredDist(targetPt, predPt) < headLength * headLength THEN 1 ELSE 0

\* eval.py:26-27: dist / head_lengths[b] <= 0.5 and 1 or 0.  For a positive
\* head length, dist / h <= 1/2 exactly when 4 * dist^2 <= h^2.
Thresholded(predPt, targetPt, headLength) ==
  IF 4 * SquaredDist(targetPt, predPt) <= headLength * headLength THEN 1 ELSE 0

\* pred.size(0) and pred.size(1).
BatchSize(batch) == Len(batch)

NJoints(batch) == Cardinality(DOMAIN batch[1].pred)

\* The loop body without its test of the mask.
AddEntry_IgnoreMask(m, batch, b, j) ==
  LET thresholded ==
        Thresholded(batch[b].pred[j], batch[b].target[j], batch[b].head)
  IN  [m EXCEPT !["all"] = MeterAdd(@, thresholded),
                ![JointName(j)] = MeterAdd(@, thresholded)]

\* The body of the inner loop for one (b, j), eval.py:25-29.
AddEntry(m, batch, b, j) ==
  IF batch[b].mask[j] = 1
  THEN LET thresholded ==
             Thresholded(batch[b].pred[j], batch[b].target[j], batch[b].head)
       IN  [m EXCEPT !["all"] = MeterAdd(@, thresholded),
                     ![JointName(j)] = MeterAdd(@, thresholded)]
  ELSE m

\* The two nested loops of add, eval.py:23-24, from entry (b, j) onwards;
\* b counts from 1 here (TLA+ sequences), j from 0.
RECURSIVE AddFrom(_, _, _, _)
AddFrom(m, batch, b, j) ==
  IF b > BatchSize(batch) THEN m
  ELSE IF j >= NJoints(batch) THEN AddFrom(m, batch, b + 1, 0)
  ELSE AddFrom(AddEntry(m, batch, b, j), batch, b, j + 1)

\* PCKhEvaluator.add as a function of the meters, eval.py:19-29.
EvaluatorAdd(m, batch) == AddFrom(m, batch, 1, 0)

\* A reset that walks JOINT_NAMES and so leaves the 'all' meter alone.
EvaluatorReset_JointsOnly(m) ==
  [name \in DOMAIN m |-> IF name = "all" THEN m[name] ELSE MeterReset(m[name])]

\* PCKhEvaluator.reset as a function of the meters, eval.py:31-33.
EvaluatorReset(m) == [name \in DOMAIN m |-> MeterReset(m[name])]

(***************************************************************************)
(* The batches the evaluator is fed.                                       *)
(***************************************************************************)

\* Largest batch size and largest number of observations in the 'all' meter.
MaxBatch == 2
MaxObs == 3

Joints == 0..(Len(JOINT_NAMES) - 1)

\* Ground-truth joint positions: joint j sits at (10 j, 100).
TargetOf(j) == <<10 * j, 100>>

\* Offsets of the prediction from the ground truth, and head lengths.
\*   "exact"  pred = target                        distance 0
\*   "d5"     offset (3, 4)                        distance 5
\*   "d4"     offset (4, 0)                        distance 4
\*   "d6"     offset (6, 0)                        distance 6
\*   "split"  even joints exact, odd joints offset (6, 0)
Offset(kind, j) ==
  CASE kind = "exact" -> <<0, 0>>
    [] kind = "d5"    -> <<3, 4>>
    [] kind = "d4"    -> <<4, 0>>
    [] kind = "d6"    -> <<6, 0>>
    [] kind = "split" -> IF j % 2 = 0 THEN <<0, 0>> ELSE <<6, 0>>

PredCases ==
  { <<"exact", 10>>, <<"d5", 10>>, <<"d4", 10>>, <<"d6", 10>>,
    <<"d6", 20>>, <<"split", 10>> }

\* Which joints are annotated in a sample: none, the right wrist only, or
\* the first and the last joint of the table.
MaskedSets == { {}, {10}, {0, 15} }

Sample(masked, kind, headLength) ==
  [ mask   |-> [j \in Joints |-> IF j \in masked THEN 1 ELSE 0],
    target |-> [j \in Joints |-> TargetOf(j)],
    pred   |-> [j \in Joints |->
                  <<TargetOf(j)[1] + Offset(kind, j)[1],
                    TargetOf(j)[2] + Offset(kind, j)[2]>>],
    head   |-> headLength ]

Samples == { Sample(ms, c[1], c[2]) : ms \in MaskedSets, c \in PredCases }

RECURSIVE SeqsOfLen(_, _)
SeqsOfLen(S, k) ==
  IF k = 0 THEN { <<>> }
  ELSE { Append(s, x) : s \in SeqsOfLen(S, k - 1), x \in S }

Batches == UNION { SeqsOfLen(Samples, k) : k \in 1..MaxBatch }

\* Number of (b, j) entries of a batch whose mask is 1.
MaskedCount(batch) ==
  Cardinality({ <<b, j>> \in (1..Len(batch)) \X Joints : batch[b].mask[j] = 1 })

(***************************************************************************)
(* Evaluator actions                                                       *)
(***************************************************************************)

EvalStart ==
  /\ meters = EvaluatorInit
  /\ evalPc = "idle"
  /\ evalArgs = <<>>
  /\ entryMeters = EvaluatorInit

\* A call of add(pred, target, joint_mask, head_lengths).
Add ==
  /\ evalPc = "idle"
  /\ \E batch \in Batches :
       /\ meters["all"].n + MaskedCount(batch) <= MaxObs
       /\ meters' = EvaluatorAdd(meters, batch)
       /\ evalArgs' = batch
  /\ evalPc' = "add"
  /\ entryMeters' = meters
  /\ UNCHANGED <<folderVars, teleVars, trainVars>>

\* A call of reset().
Reset ==
  /\ evalPc = "idle"
  /\ meters' = EvaluatorReset(meters)
  /\ evalPc' = "reset"
  /\ evalArgs' = <<>>
  /\ entryMeters' = meters
  /\ UNCHANGED <<folderVars, teleVars, trainVars>>

\* The call returns to the caller; its arguments go out of scope.
EvalReturn ==
  /\ evalPc # "idle"
  /\ evalPc' = "idle"
  /\ evalArgs' = <<>>
  /\ entryMeters' = meters
  /\ UNCHANGED <<meters, folderVars, teleVars, trainVars>>

NextEval == Add \/ Reset \/ EvalReturn

(***************************************************************************)
(* Properties of PCKhEvaluator                                             *)
(***************************************************************************)

\* The Euclidean distance of an entry; every offset used is at an integer
\* distance.
IntSqrt(x) == CHOOSE d \in 0..x : d * d = x

EntryDist(sample, j) == IntSqrt(SquaredDist(sample.target[j], sample.pred[j]))

\* distance / head_length <= 0.5, for a positive head length.
WithinHalfHead(sample, j) == 2 * EntryDist(sample, j) <= sample.head

Entries(batch) == (1..Len(batch)) \X Joints

MaskedEntries(batch) == { e \in Entries(batch) : batch[e[1]].mask[e[2]] = 1 }

MaskedOf(batch, j) == { e \in MaskedEntries(batch) : e[2] = j }

HitsOf(batch, j) == { e \in MaskedOf(batch, j) : WithinHalfHead(batch[e[1]], j) }

Grown(name, dn, dsum) ==
  /\ meters[name].n = entryMeters[name].n + dn
  /\ meters[name].sum = entryMeters[name].sum + dsum

RECURSIVE SumJoints(_, _, _)
SumJoints(m, field, k) ==
  IF k = 0 THEN 0
  ELSE SumJoints(m, field, k - 1)
         + (IF field = "n" THEN m[JOINT_NAMES[k]].n ELSE m[JOINT_NAMES[k]].sum)

\* C4: an add leaves the meter of every joint that is unmasked throughout
\* the batch exactly as it was, the 'all' meter gains one sample per masked
\* entry and none for an unmasked one, and an add whose mask is all false
\* changes no meter at all.
C4_UnmaskedSkipped ==
  evalPc = "add" =>
    /\ \A j \in Joints :
         MaskedOf(evalArgs, j) = {} =>
           meters[JointName(j)] = entryMeters[JointName(j)]
    /\ meters["all"].n = entryMeters["all"].n + Cardinality(MaskedEntries(evalArgs))
    /\ (MaskedEntries(evalArgs) = {} => meters = entryMeters)

\* An add of two samples, none of their joints annotated, onto meters that
\* already hold observations.
C4_Witness ==
  /\ evalPc = "add"
  /\ Len(evalArgs) = 2
  /\ MaskedEntries(evalArgs) = {}
  /\ \E j \in Joints : evalArgs[1].pred[j] = evalArgs[1].target[j]
  /\ entryMeters["all"].n = 2
  /\ meters["all"].n = 2

\* The batch of the spec's scenario: two samples whose only annotated joint
\* is the right wrist, at 0.4 and at 0.6 head lengths.
RwristBatch == << Sample({10}, "d4", 10), Sample({10}, "d6", 10) >>

\* C5: an add gives the meter of joint j one observation per masked entry
\* (b, j), worth 1 for a hit and 0 for a miss, and gives the 'all' meter the
\* observations of all the masked entries together; so no joint's meter
\* receives the observation of another joint.  Two right-wrist samples at 0.4
\* and 0.6 head lengths, added to a fresh evaluator, make both the 'rwrist'
\* and the 'all' meter read 1/2.
C5_OneObservationEach ==
  evalPc = "add" =>
    /\ \A j \in Joints :
         Grown(JointName(j), Cardinality(MaskedOf(evalArgs, j)),
               Cardinality(HitsOf(evalArgs, j)))
    /\ Grown("all", Cardinality(MaskedEntries(evalArgs)),
             Cardinality(UNION { HitsOf(evalArgs, j) : j \in Joints }))
    /\ (evalArgs = RwristBatch /\ entryMeters = EvaluatorInit =>
          /\ meters["rwrist"] = [n |-> 2, sum |-> 1]
          /\ meters["all"] = [n |-> 2, sum |-> 1])

C5_Witness ==
  /\ evalPc = "add"
  /\ evalArgs = RwristBatch
  /\ entryMeters = EvaluatorInit
  /\ 2 * meters["rwrist"].sum = meters["rwrist"].n
  /\ 2 * meters["all"].sum = meters["all"].n

\* C6: an add of a single masked entry records 1 exactly when the distance
\* is at most half the head length: 1 at exactly half, 0 above, and 1 when
\* the prediction equals the target.
C6_HitIffWithinHalf ==
  (evalPc = "add" /\ Cardinality(MaskedEntries(evalArgs)) = 1) =>
    LET e == CHOOSE x \in MaskedEntries(evalArgs) : TRUE
        s == evalArgs[e[1]]
        recorded == meters["all"].sum - entryMeters["all"].sum
    IN  /\ recorded = (IF WithinHalfHead(s, e[2]) THEN 1 ELSE 0)
        /\ (2 * EntryDist(s, e[2]) = s.head => recorded = 1)
        /\ (2 * EntryDist(s, e[2]) > s.head => recorded = 0)
        /\ (s.pred[e[2]] = s.target[e[2]] => recorded = 1)
        /\ meters[JointName(e[2])].sum
             = entryMeters[JointName(e[2])].sum + recorded

\* A single right-wrist entry at exactly half a head length, recorded as a
\* hit.
C6_Witness ==
  /\ evalPc = "add"
  /\ MaskedEntries(evalArgs) = { <<1, 10>> }
  /\ 2 * EntryDist(evalArgs[1], 10) = evalArgs[1].head
  /\ evalArgs[1].pred[10] # evalArgs[1].target[10]
  /\ meters["rwrist"].sum = entryMeters["rwrist"].sum + 1

\* C7: at all times the 'all' meter's sample count is the sum of the sixteen
\* joint meters' sample counts and its hit sum the sum of their hit sums.
C7_AllIsSumOfJoints ==
  /\ meters["all"].n = SumJoints(meters, "n", Len(JOINT_NAMES))
  /\ meters["all"].sum = SumJoints(meters, "sum", Len(JOINT_NAMES))

\* An add has left three observations spread over three joints, two hits
\* and a miss.
C7_Witness ==
  /\ evalPc = "add"
  /\ meters["all"].n = 3
  /\ meters["all"].sum = 2
  /\ meters["rankle"].n = 1
  /\ meters["lwrist"].sum = 0
  /\ meters["rwrist"].n = 1

\* C8: the evaluator holds exactly seventeen meters, one per joint name and
\* 'all', and right after reset every one of them has no samples and no sum.
C8_SeventeenMetersAllReset ==
  /\ DOMAIN meters = JointNameSet \cup {"all"}
  /\ Cardinality(DOMAIN meters) = 17
  /\ (evalPc = "reset" =>
        \A name \in DOMAIN meters : meters[name] = [n |-> 0, sum |-> 0])

\* A reset of an evaluator that held three observations in three meters.
C8_Witness ==
  /\ evalPc = "reset"
  /\ entryMeters["all"].n = 3
  /\ entryMeters["rankle"].n = 1
  /\ entryMeters["rwrist"].n = 1
  /\ meters["all"].n = 0
  /\ meters["rwrist"].n = 0

(***************************************************************************)
(* The folder output                                                       *)
(***************************************************************************)

\* Largest step number handed to render, most growing renders that succeed,
\* and most restarts of the process.
MaxStepNum == 1
MaxRenders == 2
MaxRestarts == 1

StepNums == 0..MaxStepNum

\* What meter.value() can return.
Vals == {1, 2}

\* FolderOutput.dir_path, and FolderCell.dir_path before set_dir.
DirPath == "out"
NoDir == "None"

\* A filename template is a sequence of pieces; the piece "{:04d}" is the
\* replacement field that str.format fills with the step number.
GrowingTemplate == << "saved_metrics.json" >>
JSONTemplate == << "metrics_", "{:04d}", ".json" >>
FixedTemplate == << "val_preds.json" >>

\* GrowingJSONCell.__init__ and JSONCell.__init__, with the meter names the
\* cell is listed under in cell_list.
GrowingJSONCell(template, names) ==
  [kind |-> "growing", filename_template |-> template, names |-> names]

JSONCell(template, names) ==
  [kind |-> "json", filename_template |-> template, names |-> names]

\* The cell lists a FolderOutput is set up with here: one growing log of two
\* meters, or two snapshot views, the first under the default template.
LogCells == << GrowingJSONCell(GrowingTemplate, {"epoch", "train_loss"}) >>

SnapshotCells ==
  << JSONCell(JSONTemplate, {"val_preds"}),
     JSONCell(FixedTemplate, {"best_val_preds"}) >>

CellLists == { LogCells, SnapshotCells }

Digits == << "0", "1", "2", "3", "4", "5", "6", "7", "8", "9" >>

RECURSIVE Decimal(_)
Decimal(n) ==
  IF n < 10 THEN Digits[n + 1]
  ELSE Decimal(n \div 10) \o Digits[(n % 10) + 1]

RECURSIVE ZeroPad(_, _)
ZeroPad(str, width) ==
  IF Len(str) >= width THEN str ELSE ZeroPad("0" \o str, width)

\* A template that takes no notice of the step number.
Format04d_Constant(step_num) == "0000"

\* '{:04d}'.format(step_num): decimal, zero-padded to four characters.
Format04d(step_num) == ZeroPad(Decimal(step_num), 4)

\* filename_template.format(step_num).
RECURSIVE FormatTemplate(_, _)
FormatTemplate(template, step_num) ==
  IF template = << >> THEN ""
  ELSE (IF Head(template) = "{:04d}" THEN Format04d(step_num)
        ELSE Head(template))
       \o FormatTemplate(Tail(template), step_num)

\* FolderCell.build_path, folder.py:16-17, for a dir_path that is set.
BuildPath(dir_path, template, step_num) ==
  dir_path \o "/" \o FormatTemplate(template, step_num)

AllCells == UNION { { cl[i] : i \in DOMAIN cl } : cl \in CellLists }

AllPaths ==
  { BuildPath(DirPath, c.filename_template, s) : c \in AllCells, s \in StepNums }

\* The content of a path: no file, a file of length zero, a text that is no
\* JSON document, a JSON text whose top-level value is no object, or a JSON
\* object, kept as the dict it decodes to.
Absent == [st |-> "absent", doc |-> << >>]
Truncated == [st |-> "empty", doc |-> << >>]
Garbage == [st |-> "garbage", doc |-> << >>]
NotDict == [st |-> "notdict", doc |-> << >>]

\* A value under a key that is no list, such as the number 5.  It is kept as
\* a sequence no list of meter values equals: meter values are positive.
NotAList == << -1 >>

\* json.dump(values, f) followed by the close of f.
JsonDump(values) == [st |-> "json", doc |-> values]

\* os.path.isfile(file_path).
IsFile(file) == file.st # "absent"

\* json.load(f) raises on a text that is no JSON document.
JsonLoads(file) == file.st \in {"json", "notdict"}

JsonLoad(file) == file.doc

EmptyDict == [k \in {} |-> << >>]

\* A render that never reads the file back.
LoadedValues_Fresh(file) == EmptyDict

\* GrowingJSONCell.render, folder.py:37-41: the values read back.
LoadedValues(file) == IF IsFile(file) THEN JsonLoad(file) ELSE EmptyDict

\* A render that stores the value in place of the list.
AppendValues_Replace(values, m) ==
  [ k \in (DOMAIN values) \cup (DOMAIN m) |->
      IF k \in DOMAIN m THEN << m[k] >> ELSE values[k] ]

\* GrowingJSONCell.render, folder.py:42-45: every meter's value is appended
\* to the list under its name, which starts empty.
AppendValues(values, m) ==
  [ k \in (DOMAIN values) \cup (DOMAIN m) |->
      IF k \in DOMAIN m
      THEN Append(IF k \in DOMAIN values THEN values[k] ELSE << >>, m[k])
      ELSE values[k] ]

\* A render that takes whatever it finds in the file for an empty history.
LoadError_Lenient(file, names) == "none"

\* GrowingJSONCell.render, folder.py:37-45: what the read of the file and
\* the loop over the meters raise, for a cell subscribed to names (at least
\* one).  json.load raises on a text that does not parse; on a list, string
\* or number the membership test or the item assignment raises TypeError;
\* on a dict whose value under a subscribed name has no append the call of
\* append raises AttributeError.  Keys the cell is not subscribed to are
\* never looked at.
LoadError(file, names) ==
  IF ~IsFile(file) THEN "none"
  ELSE IF ~JsonLoads(file) THEN "JSONDecodeError"
  ELSE IF file.st = "notdict" THEN "TypeError"
  ELSE IF \E k \in names \cap DOMAIN JsonLoad(file) : JsonLoad(file)[k] = NotAList
       THEN "AttributeError"
  ELSE "none"

\* JSONCell.render, folder.py:25-27: the value of every meter handed in.
SnapshotValues(m) == [ k \in DOMAIN m |-> m[k] ]

NoCall == [op |-> "none", cell |-> 0, step |-> 0, meters |-> << >>]
NoMem == [path |-> "", values |-> << >>]
NoEntry == [files |-> << >>, cellDir |-> << >>, dirExists |-> FALSE]

Snapshot == [files |-> files, cellDir |-> cellDir, dirExists |-> dirExists]

\* FolderOutput.__init__ and the cells' __init__ on a disk where dir_path
\* does not exist yet.
FolderStart(cl) ==
  /\ cellList = cl
  /\ dirExists = FALSE
  /\ files = [p \in AllPaths |-> Absent]
  /\ cellDir = [i \in DOMAIN cl |-> NoDir]
  /\ prepared = "no"
  /\ pc = "idle"
  /\ call = NoCall
  /\ result = "none"
  /\ mem = NoMem
  /\ entry = NoEntry
  /\ rendered = << >>
  /\ incarnation = 0
  /\ foreign = FALSE

\* The call raises: nothing on disk or in the cells changes.
Raises(c, exception) ==
  /\ call' = c
  /\ entry' = Snapshot
  /\ result' = exception
  /\ pc' = "returned"
  /\ UNCHANGED <<cellList, dirExists, files, cellDir, mem, rendered, incarnation, foreign>>

\* os.makedirs with exist_ok=True.
MakedirsRaises_ExistOk(exists) == FALSE

\* os.makedirs(self.dir_path), folder.py:56, raises FileExistsError when the
\* directory exists: no exist_ok is passed.
MakedirsRaises(exists) == exists

\* FolderOutput.prepare, folder.py:54-58.  When os.makedirs raises, the loop
\* over cell_list never runs.
Prepare ==
  /\ pc = "idle"
  /\ LET c == [NoCall EXCEPT !.op = "prepare"] IN
       IF MakedirsRaises(dirExists)
       THEN /\ Raises(c, "FileExistsError")
            /\ prepared' = "failed"
       ELSE /\ dirExists' = TRUE
            /\ cellDir' = [i \in DOMAIN cellList |-> DirPath]
            /\ prepared' = "ok"
            /\ call' = c
            /\ entry' = Snapshot
            /\ result' = "ok"
            /\ pc' = "returned"
            /\ UNCHANGED <<cellList, files, mem, rendered, incarnation, foreign>>
  /\ UNCHANGED <<evalVars, teleVars, trainVars>>

\* FolderCell.set_dir, folder.py:13-14, called on one cell.
SetDir ==
  /\ pc = "idle"
  /\ \E i \in DOMAIN cellList :
       /\ cellDir' = [cellDir EXCEPT ![i] = DirPath]
       /\ call' = [NoCall EXCEPT !.op = "set_dir", !.cell = i]
  /\ entry' = Snapshot
  /\ result' = "ok"
  /\ pc' = "returned"
  /\ UNCHANGED <<cellList, dirExists, files, prepared, mem, rendered, incarnation, foreign>>
  /\ UNCHANGED <<evalVars, teleVars, trainVars>>

\* open(file_path, 'w') in a directory that exists: the file is created or
\* cut to length zero, and the render goes on to write into it.
OpensForWriting(c, path, values) ==
  /\ call' = c
  /\ entry' = Snapshot
  /\ files' = [files EXCEPT ![path] = Truncated]
  /\ mem' = [path |-> path, values |-> values]
  /\ result' = "running"
  /\ pc' = "writing"
  /\ UNCHANGED <<cellList, dirExists, cellDir, rendered, incarnation, foreign>>

\* GrowingJSONCell.render, folder.py:35-46, up to the open for writing.
\* os.path.join raises TypeError on a dir_path of None, the read of the file
\* and the loop over the meters raise as LoadError says, and open raises when
\* the directory is missing.
RenderGrowing ==
  /\ pc = "idle"
  /\ Len(rendered) < MaxRenders
  /\ \E i \in DOMAIN cellList, step_num \in StepNums :
       /\ cellList[i].kind = "growing"
       /\ \E m \in [cellList[i].names -> Vals] :
            LET c == [op |-> "render", cell |-> i, step |-> step_num, meters |-> m]
                file_path ==
                  BuildPath(cellDir[i], cellList[i].filename_template, step_num)
            IN  IF cellDir[i] = NoDir THEN Raises(c, "TypeError")
                ELSE IF LoadError(files[file_path], DOMAIN m) # "none"
                THEN Raises(c, LoadError(files[file_path], DOMAIN m))
                ELSE IF ~dirExists THEN Raises(c, "FileNotFoundError")
                ELSE OpensForWriting(c, file_path,
                       AppendValues(LoadedValues(files[file_path]), m))
  /\ UNCHANGED <<prepared, evalVars, teleVars, trainVars>>

\* JSONCell.render, folder.py:23-28, up to the open for writing.
RenderJSON ==
  /\ pc = "idle"
  /\ \E i \in DOMAIN cellList, step_num \in StepNums :
       /\ cellList[i].kind = "json"
       /\ \E m \in [cellList[i].names -> Vals] :
            LET c == [op |-> "render", cell |-> i, step |-> step_num, meters |-> m]
                path ==
                  BuildPath(cellDir[i], cellList[i].filename_template, step_num)
            IN  IF cellDir[i] = NoDir THEN Raises(c, "TypeError")
                ELSE IF ~dirExists THEN Raises(c, "FileNotFoundError")
                ELSE OpensForWriting(c, path, SnapshotValues(m))
  /\ UNCHANGED <<prepared, evalVars, teleVars, trainVars>>

\* json.dump(values, f) and the end of the with block, folder.py:29 and
\* folder.py:47: the whole text is in the file and render returns.
FinishWrite ==
  /\ pc = "writing"
  /\ files' = [files EXCEPT ![mem.path] = JsonDump(mem.values)]
  /\ rendered' = IF cellList[call.cell].kind = "growing"
                 THEN Append(rendered, call.meters)
                 ELSE rendered
  /\ mem' = NoMem
  /\ result' = "ok"
  /\ pc' = "returned"
  /\ UNCHANGED <<cellList, dirExists, cellDir, prepared, call, entry, incarnation, foreign>>
  /\ UNCHANGED <<evalVars, teleVars, trainVars>>

\* The call has returned or raised; the caller goes on.
Return ==
  /\ pc = "returned"
  /\ pc' = "idle"
  /\ call' = NoCall
  /\ entry' = NoEntry
  /\ result' = "none"
  /\ UNCHANGED <<cellList, dirExists, files, cellDir, prepared, mem, rendered,
                 incarnation, foreign>>
  /\ UNCHANGED <<evalVars, teleVars, trainVars>>

\* The process ends between two calls.
Close ==
  /\ pc = "idle"
  /\ incarnation < MaxRestarts
  /\ pc' = "down"
  /\ UNCHANGED <<cellList, dirExists, files, cellDir, prepared, call, result,
                 mem, entry, rendered, incarnation, foreign>>
  /\ UNCHANGED <<evalVars, teleVars, trainVars>>

\* The process is killed while a render holds its file open for writing:
\* what the render had in memory is lost, the disk stays as it is.
Crash ==
  /\ pc = "writing"
  /\ incarnation < MaxRestarts
  /\ pc' = "down"
  /\ mem' = NoMem
  /\ result' = "killed"
  /\ UNCHANGED <<cellList, dirExists, files, cellDir, prepared, call, entry,
                 rendered, incarnation, foreign>>
  /\ UNCHANGED <<evalVars, teleVars, trainVars>>

\* A new process constructs the same FolderOutput and cells again: every
\* cell's dir_path is None until prepare or set_dir runs.
Reopen ==
  /\ pc = "down"
  /\ pc' = "idle"
  /\ cellDir' = [i \in DOMAIN cellList |-> NoDir]
  /\ prepared' = "no"
  /\ call' = NoCall
  /\ entry' = NoEntry
  /\ result' = "none"
  /\ incarnation' = incarnation + 1
  /\ UNCHANGED <<cellList, dirExists, files, mem, rendered, foreign>>
  /\ UNCHANGED <<evalVars, teleVars, trainVars>>

\* What another program can leave at the path of the growing log: a text
\* that does not parse, a JSON list, an object with a number under a
\* subscribed name beside a one-entry history, an object with a number under
\* a name the cell is not subscribed to.
ForeignContents ==
  { Garbage,
    NotDict,
    JsonDump(("epoch" :> << 1 >>) @@ ("train_loss" :> NotAList)),
    JsonDump("notes" :> NotAList) }

\* Something other than the cell writes the file GrowingJSONCell.render
\* reads at folder.py:37-39, between two calls of the sink.
ForeignWrite ==
  /\ pc = "idle"
  /\ dirExists
  /\ ~foreign
  /\ \E i \in DOMAIN cellList : cellList[i].kind = "growing"
  /\ \E content \in ForeignContents :
       files' = [files EXCEPT ![BuildPath(DirPath, GrowingTemplate, 0)] = content]
  /\ foreign' = TRUE
  /\ UNCHANGED <<cellList, dirExists, cellDir, prepared, pc, call, result, mem,
                 entry, rendered, incarnation>>
  /\ UNCHANGED <<evalVars, teleVars, trainVars>>

NextFolder ==
  \/ ForeignWrite
  \/ Prepare
  \/ SetDir
  \/ RenderGrowing
  \/ RenderJSON
  \/ FinishWrite
  \/ Return
  \/ Close
  \/ Crash
  \/ Reopen

(***************************************************************************)
(* Meters and the telemetry registry                                       *)
(*                                                                         *)
(* tele.Telemetry, tele.meter and torchnet.meter are imported by train.py  *)
(* and are not among the source files; their behaviour is taken from the   *)
(* specification (sections 3, 4.1, 4.3 and 7).  Which meters exist, under  *)
(* which keys and with which skip_reset, is taken from train.py.           *)
(***************************************************************************)

\* Most calls of add in one run of SpecTele.
MaxAdds == 3

\* Floating-point values: a number num/den, not-a-number, or minus infinity.
Num(x) == [k |-> "num", num |-> x, den |-> 1]
NaN == [k |-> "nan", num |-> 0, den |-> 1]
NegInf == [k |-> "-inf", num |-> 0, den |-> 1]

IsNaN(x) == x.k = "nan"

\* x > y on floats: false as soon as one side is not-a-number.
Greater(x, y) ==
  /\ x.k = "num"
  /\ \/ y.k = "-inf"
     \/ y.k = "num" /\ x.num * y.den > y.num * x.den

\* The payload of a ValueMeter is an opaque object, told apart by a positive
\* number; None is the payload of a meter that holds nothing.
None == 0

\* torchnet.meter.AverageValueMeter(): count and sum; nan records that a
\* not-a-number was added, which then is what the sum is.
AverageValueMeter ==
  [kind |-> "Average", n |-> 0, sum |-> 0, nan |-> FALSE, skip_reset |-> FALSE]

\* tele.meter.ValueMeter(skip_reset).
ValueMeter(skip_reset) ==
  [kind |-> "Value", value |-> None, skip_reset |-> skip_reset]

\* tele.meter.MaxValueMeter(skip_reset).
MaxValueMeter(skip_reset) ==
  [kind |-> "Max", max |-> NegInf, skip_reset |-> skip_reset]

\* torchnet.meter.TimeMeter(unit=False); the clock is not modelled.
TimeMeter == [kind |-> "Time", skip_reset |-> FALSE]

\* A meter object of one of the evaluators, registered under a second name.
EvaluatorMeter(evaluator, name) ==
  [kind |-> "Evaluator", of |-> evaluator, name |-> name, skip_reset |-> FALSE]

\* An add that counts the observation and drops its value.
AverageAdd_CountOnly(m, x) == [m EXCEPT !.n = @ + 1]

\* AverageValueMeter.add(x).
AverageAdd(m, x) ==
  IF IsNaN(x) THEN [m EXCEPT !.n = @ + 1, !.nan = TRUE]
  ELSE [m EXCEPT !.n = @ + 1, !.sum = @ + x.num]

\* AverageValueMeter.value()[0]: the mean, not-a-number without observations.
AverageValue(m) ==
  IF m.n = 0 \/ m.nan THEN NaN ELSE [k |-> "num", num |-> m.sum, den |-> m.n]

\* A maximum that also moves on a value equal to it.
MaxRaises_OnTies(m, x) == Greater(x, m.max) \/ x = m.max

\* MaxValueMeter.add(x) returns whether x raised the maximum.
MaxRaises(m, x) == Greater(x, m.max)

MaxAdd(m, x) == IF MaxRaises(m, x) THEN [m EXCEPT !.max = x] ELSE m

\* ValueMeter.set_value(v).
SetValue(m, v) == [m EXCEPT !.value = v]

\* meter.reset(): back to the state of a new meter, unless skip_reset is set.
ResetMeter(m) ==
  IF m.skip_reset THEN m
  ELSE CASE m.kind = "Average" -> [m EXCEPT !.n = 0, !.sum = 0, !.nan = FALSE]
         [] m.kind = "Value"   -> [m EXCEPT !.value = None]
         [] m.kind = "Max"     -> [m EXCEPT !.max = NegInf]
         [] OTHER              -> m

\* Telemetry.reset(): every meter of the registry is reset.
TelemetryReset(t) == [key \in DOMAIN t |-> ResetMeter(t[key])]

\* The registry with best_val_preds built like val_preds, without skip_reset.
ReportingTelemetry_BestNotSticky ==
  [ experiment_id            |-> ValueMeter(TRUE),
    epoch                    |-> ValueMeter(FALSE),
    train_loss               |-> AverageValueMeter,
    val_loss                 |-> AverageValueMeter,
    epoch_time               |-> TimeMeter,
    train_data_load_time     |-> AverageValueMeter,
    train_data_transfer_time |-> AverageValueMeter,
    train_forward_time       |-> AverageValueMeter,
    train_criterion_time     |-> AverageValueMeter,
    train_backward_time      |-> AverageValueMeter,
    train_optim_time         |-> AverageValueMeter,
    train_eval_time          |-> AverageValueMeter,
    train_sample             |-> ValueMeter(FALSE),
    val_sample               |-> ValueMeter(FALSE),
    train_heatmaps           |-> ValueMeter(FALSE),
    val_heatmaps             |-> ValueMeter(FALSE),
    args                     |-> ValueMeter(TRUE),
    train_pckh_total         |-> EvaluatorMeter("train_eval", "total_mpii"),
    val_pckh_total           |-> EvaluatorMeter("val_eval", "total_mpii"),
    train_pckh_all           |-> EvaluatorMeter("train_eval", "all"),
    val_pckh_all             |-> EvaluatorMeter("val_eval", "all"),
    val_preds                |-> ValueMeter(FALSE),
    best_val_preds           |-> ValueMeter(FALSE),
    model_graph              |-> ValueMeter(TRUE) ]

\* Reporting.__init__, train.py:107-133: the dict handed to tele.Telemetry.
ReportingTelemetry ==
  [ experiment_id            |-> ValueMeter(TRUE),
    epoch                    |-> ValueMeter(FALSE),
    train_loss               |-> AverageValueMeter,
    val_loss                 |-> AverageValueMeter,
    epoch_time               |-> TimeMeter,
    train_data_load_time     |-> AverageValueMeter,
    train_data_transfer_time |-> AverageValueMeter,
    train_forward_time       |-> AverageValueMeter,
    train_criterion_time     |-> AverageValueMeter,
    train_backward_time      |-> AverageValueMeter,
    train_optim_time         |-> AverageValueMeter,
    train_eval_time          |-> AverageValueMeter,
    train_sample             |-> ValueMeter(FALSE),
    val_sample               |-> ValueMeter(FALSE),
    train_heatmaps           |-> ValueMeter(FALSE),
    val_heatmaps             |-> ValueMeter(FALSE),
    args                     |-> ValueMeter(TRUE),
    train_pckh_total         |-> EvaluatorMeter("train_eval", "total_mpii"),
    val_pckh_total           |-> EvaluatorMeter("val_eval", "total_mpii"),
    train_pckh_all           |-> EvaluatorMeter("train_eval", "all"),
    val_pckh_all             |-> EvaluatorMeter("val_eval", "all"),
    val_preds                |-> ValueMeter(FALSE),
    best_val_preds           |-> ValueMeter(TRUE),
    model_graph              |-> ValueMeter(TRUE) ]

\* The losses and accuracies fed to the meters, and the payloads set.
LossVals == { Num(1), Num(3), NaN }
AccVals == { Num(1), Num(2), NaN }
Payloads == {1, 2}

LossKeys == {"train_loss", "val_loss"}

\* The value meters SpecTele sets: one that is reset and one that is not.
SetKeys == {"val_preds", "best_val_preds"}

NoTelCall == [op |-> "none", key |-> "", x |-> NaN, v |-> None, ret |-> FALSE]
NoEntryTel == [tel |-> << >>, best |-> << >>]

\* No registry has been built.
NoTelemetry ==
  /\ tel = << >>
  /\ best_val_acc_meter = MaxValueMeter(TRUE)
  /\ telPc = "idle"
  /\ telCall = NoTelCall
  /\ entryTel = NoEntryTel
  /\ added = [key \in LossKeys |-> << >>]
  /\ accAdded = << >>

\* Reporting.__init__ and train.py:307 have run.
TeleStart ==
  /\ tel = ReportingTelemetry
  /\ best_val_acc_meter = MaxValueMeter(TRUE)
  /\ telPc = "idle"
  /\ telCall = NoTelCall
  /\ entryTel = NoEntryTel
  /\ added = [key \in LossKeys |-> << >>]
  /\ accAdded = << >>

AddsSoFar == Len(added["train_loss"]) + Len(added["val_loss"]) + Len(accAdded)

TelCalled(c) ==
  /\ telPc = "idle"
  /\ telPc' = "returned"
  /\ telCall' = c
  /\ entryTel' = [tel |-> tel, best |-> best_val_acc_meter]

\* tel[key].add(x) on one of the loss meters.
TelAdd ==
  /\ AddsSoFar < MaxAdds
  /\ \E key \in LossKeys, x \in LossVals :
       /\ TelCalled([NoTelCall EXCEPT !.op = "add", !.key = key, !.x = x])
       /\ tel' = [tel EXCEPT ![key] = AverageAdd(@, x)]
       /\ added' = [added EXCEPT ![key] = Append(@, x)]
  /\ UNCHANGED <<best_val_acc_meter, accAdded, evalVars, folderVars, trainVars>>

\* tel[key].set_value(v).
TelSetValue ==
  /\ \E key \in SetKeys, v \in Payloads :
       /\ TelCalled([NoTelCall EXCEPT !.op = "set_value", !.key = key, !.v = v])
       /\ tel' = [tel EXCEPT ![key] = SetValue(@, v)]
  /\ UNCHANGED <<best_val_acc_meter, added, accAdded, evalVars, folderVars, trainVars>>

\* best_val_acc_meter.add(x), train.py:486.
BestAdd ==
  /\ AddsSoFar < MaxAdds
  /\ \E x \in AccVals :
       /\ TelCalled([NoTelCall EXCEPT !.op = "max_add", !.x = x,
                                      !.ret = MaxRaises(best_val_acc_meter, x)])
       /\ best_val_acc_meter' = MaxAdd(best_val_acc_meter, x)
       /\ accAdded' = Append(accAdded, x)
  /\ UNCHANGED <<tel, added, evalVars, folderVars, trainVars>>

\* tel.reset().  The evaluators' meters in the registry hold nothing here.
TelReset ==
  /\ TelCalled([NoTelCall EXCEPT !.op = "reset"])
  /\ tel' = TelemetryReset(tel)
  /\ added' = [key \in LossKeys |-> << >>]
  /\ UNCHANGED <<best_val_acc_meter, accAdded, evalVars, folderVars, trainVars>>

\* best_val_acc_meter.reset().
BestReset ==
  /\ TelCalled([NoTelCall EXCEPT !.op = "max_reset"])
  /\ best_val_acc_meter' = ResetMeter(best_val_acc_meter)
  /\ accAdded' = IF best_val_acc_meter.skip_reset THEN accAdded ELSE << >>
  /\ UNCHANGED <<tel, added, evalVars, folderVars, trainVars>>

TelReturn ==
  /\ telPc = "returned"
  /\ telPc' = "idle"
  /\ telCall' = NoTelCall
  /\ entryTel' = NoEntryTel
  /\ UNCHANGED <<tel, best_val_acc_meter, added, accAdded, evalVars, folderVars, trainVars>>

NextTele ==
  \/ TelAdd
  \/ TelSetValue
  \/ BestAdd
  \/ TelReset
  \/ BestReset
  \/ TelReturn

(***************************************************************************)
(* main of train.py                                                        *)
(***************************************************************************)

\* args.epochs.
MaxEpochs == 2

\* train.py:28 imports PCKhEvaluator from dsnt.evaluator, a module that is
\* not among the source files.  The class of eval.py has the keys MeterNames;
\* main also asks for a meter 'total_mpii'.  Both are kept: the class as in
\* eval.py, and a class with that one meter more, whose add is unknown.
EvaluatorKeySets == { MeterNames, MeterNames \cup {"total_mpii"} }

\* The lengths of the two loaders; each pass sees at least one batch.
LoaderLengths == { [train |-> 1, val |-> 2], [train |-> 2, val |-> 1] }

\* The losses a batch can give.
BatchLosses == { Num(2), NaN }

\* What a ValueMeter is handed in epoch e.
PayloadOf(e) == e + 1

\* The batches of the training set: the first and last joint annotated, then
\* the right wrist; the predictions change with the epoch.
TrainBatchAt(e, i) ==
  IF i = 1 THEN << Sample({0, 15}, IF e % 2 = 0 THEN "d6" ELSE "exact", 10) >>
  ELSE << Sample({10}, "d4", 10) >>

\* The batches of the validation set: the right wrist annotated.
ValBatchAt(e, i) ==
  IF i = 1 THEN << Sample({10}, IF e % 2 = 0 THEN "d6" ELSE "d5", 10) >>
  ELSE << Sample({10}, "exact", 10) >>

\* setup_console_output, train.py:139-141.
ConsoleKeys ==
  {"train_loss", "val_loss", "train_pckh_total", "val_pckh_total", "epoch_time"}

\* A folder output with a view on a key the registry does not have.
FolderKeys_Unregistered ==
  {"epoch", "train_loss", "val_loss", "epoch_time", "train_pckh_total",
   "val_pckh_total", "val_preds", "best_val_preds", "val_acc"}

\* setup_folder_output, train.py:152-155.
FolderKeys ==
  {"epoch", "train_loss", "val_loss", "epoch_time", "train_pckh_total",
   "val_pckh_total", "val_preds", "best_val_preds"}

\* setup_showoff_output, train.py:164-179.
ShowoffKeys ==
  {"train_loss", "val_loss", "train_pckh_all", "val_pckh_all",
   "train_pckh_total", "val_pckh_total", "experiment_id", "epoch",
   "epoch_time", "args", "train_sample", "val_sample", "model_graph",
   "train_data_load_time", "train_data_transfer_time", "train_forward_time",
   "train_criterion_time", "train_backward_time", "train_optim_time",
   "train_eval_time", "train_heatmaps", "val_heatmaps"}

SinkKeys(sink) ==
  CASE sink = "console" -> ConsoleKeys
    [] sink = "folder"  -> FolderKeys
    [] sink = "showoff" -> ShowoffKeys

\* The keys main looks up in tel: train.py:296-304, 447-448, train (345-383),
\* validate (417, 440) and the end of the epoch (461-500).
ConstantKeys == {"experiment_id", "args", "model_graph"}
EpochKeys == {"epoch", "epoch_time"}
TrainKeys ==
  {"train_data_load_time", "train_data_transfer_time", "train_forward_time",
   "train_criterion_time", "train_loss", "train_eval_time",
   "train_backward_time", "train_optim_time"}
ValKeys == {"val_loss", "val_preds"}
CheckpointKeys ==
  {"train_sample", "val_sample", "train_heatmaps", "val_heatmaps",
   "best_val_preds", "val_preds"}

DriverKeys ==
  ConstantKeys \cup EpochKeys \cup TrainKeys \cup ValKeys \cup CheckpointKeys

SinkSet == { sinks[k] : k \in DOMAIN sinks }

NoCheckpoints == [model |-> 0, best |-> [epoch |-> 0, val_acc |-> NaN]]

NoSeen ==
  [epoch |-> None, train_loss |-> NaN, val_loss |-> NaN, best_val_preds |-> None]

NoStepLog == [rendered |-> {}, failed |-> {}, seen |-> NoSeen]

\* main is not running.
NoDriver ==
  /\ evaluatorKeys = MeterNames
  /\ train_eval = EvaluatorInit
  /\ val_eval = EvaluatorInit
  /\ exp_out_dir = NoDir
  /\ showoff = FALSE
  /\ loaders = [train |-> 1, val |-> 1]
  /\ dpc = "none"
  /\ epoch = 0
  /\ batch_i = 0
  /\ loss = NaN
  /\ error = "none"
  /\ sinks = << >>
  /\ checkpoints = NoCheckpoints
  /\ stepLog = NoStepLog
  /\ failedSteps = 0

\* main up to train.py:241: the arguments are parsed, the loaders and the
\* two evaluators are built.
DriverStart ==
  /\ evaluatorKeys \in EvaluatorKeySets
  /\ train_eval = EvaluatorInit
  /\ val_eval = EvaluatorInit
  /\ exp_out_dir \in {NoDir, DirPath}
  /\ showoff \in BOOLEAN
  /\ loaders \in LoaderLengths
  /\ dpc = "start"
  /\ epoch = 0
  /\ batch_i = 0
  /\ loss = NaN
  /\ error = "none"
  /\ sinks = << >>
  /\ checkpoints = NoCheckpoints
  /\ stepLog = NoStepLog
  /\ failedSteps = 0

\* An exception leaves main: the process ends with it.
Aborts(exception) ==
  /\ error' = exception
  /\ dpc' = "aborted"

\* reporting = Reporting(train_eval, val_eval), train.py:260-261.  The dict
\* of train.py:108-133 looks up 'total_mpii' and 'all' in both evaluators.
BuildReporting ==
  /\ dpc = "start"
  /\ IF {"total_mpii", "all"} \subseteq evaluatorKeys
     THEN /\ tel' = ReportingTelemetry
          /\ dpc' = "outputs"
          /\ UNCHANGED error
     ELSE /\ Aborts("KeyError: evaluator meter")
          /\ UNCHANGED tel
  /\ UNCHANGED <<best_val_acc_meter, telPc, telCall, entryTel, added, accAdded>>
  /\ UNCHANGED <<evaluatorKeys, train_eval, val_eval, exp_out_dir, showoff,
                 loaders, epoch, batch_i, loss, sinks, checkpoints, stepLog,
                 failedSteps>>
  /\ UNCHANGED <<evalVars, folderVars>>

\* The sinks main registers, train.py:263-293.
ConfiguredSinks ==
  << "console" >>
  \o (IF exp_out_dir # NoDir THEN << "folder" >> ELSE << >>)
  \o (IF showoff THEN << "showoff" >> ELSE << >>)

\* train.py:263-293: the outputs are registered; a view on a key that is not
\* in the registry is an error at registration.
SetupOutputs ==
  /\ dpc = "outputs"
  /\ IF \A k \in DOMAIN ConfiguredSinks :
          SinkKeys(ConfiguredSinks[k]) \subseteq DOMAIN tel
     THEN /\ sinks' = ConfiguredSinks
          /\ dpc' = "constants"
          /\ UNCHANGED error
     ELSE /\ Aborts("KeyError: registry")
          /\ UNCHANGED sinks
  /\ UNCHANGED teleVars
  /\ UNCHANGED <<evaluatorKeys, train_eval, val_eval, exp_out_dir, showoff,
                 loaders, epoch, batch_i, loss, checkpoints, stepLog,
                 failedSteps>>
  /\ UNCHANGED <<evalVars, folderVars>>

\* tel[key] for every key of keys: a KeyError when one is missing.
Registered(keys) == keys \subseteq DOMAIN tel

\* train.py:296-307: the run's constants are set and the best-accuracy
\* meter is built.
SetConstants ==
  /\ dpc = "constants"
  /\ IF Registered(ConstantKeys)
     THEN /\ tel' = [key \in DOMAIN tel |->
                       IF key \in ConstantKeys THEN SetValue(tel[key], 1)
                       ELSE tel[key]]
          /\ best_val_acc_meter' = MaxValueMeter(TRUE)
          /\ dpc' = "loop"
          /\ UNCHANGED error
     ELSE /\ Aborts("KeyError: registry")
          /\ UNCHANGED <<tel, best_val_acc_meter>>
  /\ UNCHANGED <<telPc, telCall, entryTel, added, accAdded>>
  /\ UNCHANGED <<evaluatorKeys, train_eval, val_eval, exp_out_dir, showoff,
                 loaders, epoch, batch_i, loss, sinks, checkpoints, stepLog,
                 failedSteps>>
  /\ UNCHANGED <<evalVars, folderVars>>

\* train.py:444-448: the next epoch begins.  No reset of the registry stands
\* here or anywhere else in main; epoch_time alone is reset.
EpochBegin ==
  /\ dpc = "loop"
  /\ epoch < MaxEpochs
  /\ IF Registered(EpochKeys)
     THEN /\ tel' = [tel EXCEPT !["epoch"] = SetValue(@, PayloadOf(epoch)),
                                !["epoch_time"] = ResetMeter(@)]
          /\ dpc' = "train"
          /\ UNCHANGED error
     ELSE /\ Aborts("KeyError: registry")
          /\ UNCHANGED tel
  /\ batch_i' = 0
  /\ stepLog' = NoStepLog
  /\ UNCHANGED <<best_val_acc_meter, telPc, telCall, entryTel, added, accAdded>>
  /\ UNCHANGED <<evaluatorKeys, train_eval, val_eval, exp_out_dir, showoff,
                 loaders, epoch, loss, sinks, checkpoints, failedSteps>>
  /\ UNCHANGED <<evalVars, folderVars>>

\* range(epochs) is exhausted: main returns.
Finish ==
  /\ dpc = "loop"
  /\ epoch = MaxEpochs
  /\ dpc' = "done"
  /\ UNCHANGED teleVars
  /\ UNCHANGED <<evaluatorKeys, train_eval, val_eval, exp_out_dir, showoff,
                 loaders, epoch, batch_i, loss, error, sinks, checkpoints,
                 stepLog, failedSteps>>
  /\ UNCHANGED <<evalVars, folderVars>>

\* A training pass that adds whatever the criterion gives.
TrainingLossRaises_Never(l) == FALSE

\* train.py:360-371: a not-a-number training loss dumps the model and raises.
TrainingLossRaises(l) == IsNaN(l)

\* One batch of train, train.py:345-400.
TrainBatch ==
  /\ dpc = "train"
  /\ \E l \in BatchLosses :
       /\ loss' = l
       /\ IF ~Registered(TrainKeys)
          THEN /\ Aborts("KeyError: registry")
               /\ UNCHANGED <<tel, train_eval, batch_i>>
          ELSE IF TrainingLossRaises(l)
          THEN /\ Aborts("training loss should not be nan")
               /\ UNCHANGED <<tel, train_eval, batch_i>>
          ELSE /\ tel' = [tel EXCEPT !["train_loss"] = AverageAdd(@, l)]
               /\ train_eval' =
                    EvaluatorAdd(train_eval, TrainBatchAt(epoch, batch_i + 1))
               /\ IF batch_i + 1 = loaders.train
                  THEN dpc' = "validate" /\ batch_i' = 0
                  ELSE dpc' = "train" /\ batch_i' = batch_i + 1
               /\ UNCHANGED error
  /\ UNCHANGED <<best_val_acc_meter, telPc, telCall, entryTel, added, accAdded>>
  /\ UNCHANGED <<evaluatorKeys, val_eval, exp_out_dir, showoff, loaders, epoch,
                 sinks, checkpoints, stepLog, failedSteps>>
  /\ UNCHANGED <<evalVars, folderVars>>

\* One batch of validate, train.py:410-438, and after the last one the
\* predictions of the pass, train.py:440.  The loss is added as it is.
ValBatch ==
  /\ dpc = "validate"
  /\ \E l \in BatchLosses :
       /\ loss' = l
       /\ IF ~Registered(ValKeys)
          THEN /\ Aborts("KeyError: registry")
               /\ UNCHANGED <<tel, val_eval, batch_i>>
          ELSE /\ val_eval' =
                    EvaluatorAdd(val_eval, ValBatchAt(epoch, batch_i + 1))
               /\ IF batch_i + 1 = loaders.val
                  THEN /\ tel' = [tel EXCEPT
                                    !["val_loss"] = AverageAdd(@, l),
                                    !["val_preds"] = SetValue(@, PayloadOf(epoch))]
                       /\ dpc' = "checkpoint"
                       /\ batch_i' = 0
                  ELSE /\ tel' = [tel EXCEPT !["val_loss"] = AverageAdd(@, l)]
                       /\ dpc' = "validate"
                       /\ batch_i' = batch_i + 1
               /\ UNCHANGED error
  /\ UNCHANGED <<best_val_acc_meter, telPc, telCall, entryTel, added, accAdded>>
  /\ UNCHANGED <<evaluatorKeys, train_eval, exp_out_dir, showoff, loaders,
                 epoch, sinks, checkpoints, stepLog, failedSteps>>
  /\ UNCHANGED <<evalVars, folderVars>>

\* A driver that takes every epoch's model for the best one.
BestUpdated_Always(out_dir, is_best) == out_dir # NoDir

\* train.py:488 and 498: model-best.pth and best_val_preds are written when
\* there is an output directory and the epoch is the best so far.
BestUpdated(out_dir, is_best) == out_dir # NoDir /\ is_best

\* train.py:455-500: the samples of the epoch are set, the validation
\* accuracy is read and added to the maximum meter, the checkpoints are
\* saved.  The value of the 'total_mpii' meter is an input: how that meter
\* is fed is not in the source.
Checkpoint ==
  /\ dpc = "checkpoint"
  /\ IF ~Registered(CheckpointKeys)
     THEN /\ Aborts("KeyError: registry")
          /\ UNCHANGED <<tel, best_val_acc_meter, accAdded, checkpoints>>
     ELSE IF "total_mpii" \notin evaluatorKeys
     THEN /\ Aborts("KeyError: evaluator meter")
          /\ UNCHANGED <<tel, best_val_acc_meter, accAdded, checkpoints>>
     ELSE \E val_acc \in AccVals :
            LET is_best == MaxRaises(best_val_acc_meter, val_acc)
                shown == [tel EXCEPT
                            !["train_sample"] = SetValue(@, PayloadOf(epoch)),
                            !["val_sample"] = SetValue(@, PayloadOf(epoch)),
                            !["train_heatmaps"] = SetValue(@, PayloadOf(epoch)),
                            !["val_heatmaps"] = SetValue(@, PayloadOf(epoch))]
            IN  /\ best_val_acc_meter' = MaxAdd(best_val_acc_meter, val_acc)
                /\ accAdded' = Append(accAdded, val_acc)
                /\ IF BestUpdated(exp_out_dir, is_best)
                   THEN /\ checkpoints' =
                             [model |-> epoch + 1,
                              best |-> [epoch |-> epoch + 1, val_acc |-> val_acc]]
                        /\ tel' = [shown EXCEPT !["best_val_preds"] =
                                     SetValue(@, shown["val_preds"].value)]
                   ELSE /\ checkpoints' =
                             IF exp_out_dir # NoDir
                             THEN [checkpoints EXCEPT !.model = epoch + 1]
                             ELSE checkpoints
                        /\ tel' = shown
                /\ dpc' = "step"
                /\ UNCHANGED error
  /\ UNCHANGED <<telPc, telCall, entryTel, added>>
  /\ UNCHANGED <<evaluatorKeys, train_eval, val_eval, exp_out_dir, showoff,
                 loaders, epoch, batch_i, loss, sinks, stepLog, failedSteps>>
  /\ UNCHANGED <<evalVars, folderVars>>

\* A step that ends at the first render that raises.
StepOutcome_FailFast(registered, failing) ==
  [rendered |-> { registered[k] : k \in
                    { j \in DOMAIN registered :
                        \A h \in 1..j : registered[h] \notin failing } },
   raised |-> \E k \in DOMAIN registered : registered[k] \in failing]

\* Telemetry.step(): every sink is rendered in registration order; a render
\* that raises is reported and the remaining sinks are still rendered.
StepOutcome(registered, failing) ==
  [rendered |-> { registered[k] : k \in
                    { j \in DOMAIN registered : registered[j] \notin failing } },
   raised |-> FALSE]

\* The values a sink is handed for some of its keys.
Seen ==
  [epoch |-> tel["epoch"].value,
   train_loss |-> AverageValue(tel["train_loss"]),
   val_loss |-> AverageValue(tel["val_loss"]),
   best_val_preds |-> tel["best_val_preds"].value]

\* tel.step(), train.py:502.  Which renders raise is an input.  Nothing
\* around the call catches what step raises.
Step ==
  /\ dpc = "step"
  /\ \E failing \in SUBSET SinkSet :
       LET outcome == StepOutcome(sinks, failing) IN
         /\ stepLog' = [rendered |-> outcome.rendered, failed |-> failing,
                        seen |-> Seen]
         /\ failedSteps' = IF failing = {} THEN failedSteps ELSE failedSteps + 1
         /\ IF outcome.raised
            THEN Aborts("render error")
            ELSE dpc' = "evaluator_resets" /\ UNCHANGED error
  /\ UNCHANGED teleVars
  /\ UNCHANGED <<evaluatorKeys, train_eval, val_eval, exp_out_dir, showoff,
                 loaders, epoch, batch_i, loss, sinks, checkpoints>>
  /\ UNCHANGED <<evalVars, folderVars>>

\* An end of the epoch that forgets the validation evaluator.
EvaluatorsAfterEpoch_TrainOnly(te, ve) == << EvaluatorReset(te), ve >>

\* train.py:503-504: train_eval.reset() and val_eval.reset().
EvaluatorsAfterEpoch(te, ve) == << EvaluatorReset(te), EvaluatorReset(ve) >>

ResetEvaluators ==
  /\ dpc = "evaluator_resets"
  /\ train_eval' = EvaluatorsAfterEpoch(train_eval, val_eval)[1]
  /\ val_eval' = EvaluatorsAfterEpoch(train_eval, val_eval)[2]
  /\ epoch' = epoch + 1
  /\ dpc' = "loop"
  /\ UNCHANGED teleVars
  /\ UNCHANGED <<evaluatorKeys, exp_out_dir, showoff, loaders, batch_i, loss,
                 error, sinks, checkpoints, stepLog, failedSteps>>
  /\ UNCHANGED <<evalVars, folderVars>>

NextTrain ==
  \/ BuildReporting
  \/ SetupOutputs
  \/ SetConstants
  \/ EpochBegin
  \/ Finish
  \/ TrainBatch
  \/ ValBatch
  \/ Checkpoint
  \/ Step
  \/ ResetEvaluators

(***************************************************************************)
(* Specifications                                                          *)
(***************************************************************************)

\* The evaluator on its own; no folder output is set up.
InitEval == EvalStart /\ FolderStart(<< >>) /\ NoTelemetry /\ NoDriver

SpecEval == InitEval /\ [][NextEval]_vars

\* A folder output with one of the cell lists; the evaluator stays fresh.
InitFolder ==
  EvalStart /\ NoTelemetry /\ NoDriver /\ \E cl \in CellLists : FolderStart(cl)

SpecFolder == InitFolder /\ [][NextFolder]_vars

\* The registry of Reporting and the best-accuracy meter, called in any order.
InitTele == EvalStart /\ FolderStart(<< >>) /\ TeleStart /\ NoDriver

SpecTele == InitTele /\ [][NextTele]_vars

\* main of train.py, from the construction of the evaluators to its end.
InitTrain == EvalStart /\ FolderStart(<< >>) /\ NoTelemetry /\ DriverStart

SpecTrain == InitTrain /\ [][NextTrain]_vars

(***************************************************************************)
(* Properties of the folder output                                         *)
(***************************************************************************)

\* The path of the growing log, and the names it is subscribed to.
LogPath == BuildPath(DirPath, GrowingTemplate, 0)

LogNames == LogCells[1].names

\* The values of meter k in the renders h, in call order.
ValuesOf(h, k) == [i \in 1..Len(h) |-> h[i][k]]

\* The log holds exactly the renders h: no file when there are none, else
\* one array per subscribed name, with the values of h in call order.
LogHolds(h) ==
  IF h = << >> THEN files[LogPath] = Absent
  ELSE /\ files[LogPath].st = "json"
       /\ DOMAIN files[LogPath].doc = LogNames
       /\ \A k \in LogNames :
            /\ Len(files[LogPath].doc[k]) = Len(h)
            /\ files[LogPath].doc[k] = ValuesOf(h, k)

BetweenCalls == pc \in {"idle", "returned"}

\* C1: in a process that started with no log file and has run without a
\* restart, whenever no render is under way the log holds, for every
\* subscribed name, exactly the values of the N renders that succeeded, in
\* call order.
C1_LogIsRenderHistory ==
  (cellList = LogCells /\ incarnation = 0 /\ ~foreign /\ BetweenCalls) =>
    LogHolds(rendered)

\* Two renders with different values have succeeded in the first process.
C1_Witness ==
  /\ cellList = LogCells
  /\ incarnation = 0
  /\ pc = "returned"
  /\ call.op = "render"
  /\ result = "ok"
  /\ Len(rendered) = 2
  /\ rendered[1] # rendered[2]
  /\ files[LogPath].doc["epoch"] = << rendered[1]["epoch"], rendered[2]["epoch"] >>

\* C2 as stated: once the sink has been reopened through prepare on the
\* same directory, a render of the growing cell succeeds and appends its
\* values to the intact log left by the earlier process.
C2_Original ==
  ( /\ cellList = LogCells
    /\ incarnation > 0
    /\ ~foreign
    /\ prepared # "no"
    /\ pc = "returned"
    /\ call.op = "render"
    /\ entry.files[LogPath].st = "json" ) =>
  ( /\ result = "ok"
    /\ files[LogPath] =
         JsonDump(AppendValues(LoadedValues(entry.files[LogPath]), call.meters)) )

\* C2, amended: after the process has been closed between two renders and
\* started again, and the cell pointed at the same directory, the log still
\* holds exactly the values of all the renders that succeeded, before and
\* after the restart, in call order.
C2_LogSurvivesRestart ==
  ( /\ cellList = LogCells
    /\ incarnation > 0
    /\ ~foreign
    /\ BetweenCalls
    /\ files[LogPath].st # "empty" ) => LogHolds(rendered)

\* A render after a restart, the cell re-attached by set_dir, has appended
\* to the one-entry log the first process left.
C2_Witness ==
  /\ cellList = LogCells
  /\ ~foreign
  /\ incarnation = 1
  /\ prepared = "no"
  /\ pc = "returned"
  /\ call.op = "render"
  /\ result = "ok"
  /\ entry.files[LogPath].st = "json"
  /\ Len(entry.files[LogPath].doc["train_loss"]) = 1
  /\ Len(files[LogPath].doc["train_loss"]) = 2
  /\ Len(rendered) = 2

\* C3: when the process is killed during a render of the growing cell, the
\* log path holds the complete content from before the render or the
\* complete content the render was to write.
C3_AtomicReplace ==
  (cellList = LogCells /\ pc = "down" /\ call.op = "render") =>
    \/ files[LogPath] = entry.files[LogPath]
    \/ files[LogPath] =
         JsonDump(AppendValues(LoadedValues(entry.files[LogPath]), call.meters))

\* The growing cell's file on entry to the render that runs or has just run.
EntryLog == entry.files[LogPath]

GrowingRender ==
  /\ cellList = LogCells
  /\ call.op = "render"

\* The file is there and is no JSON object of lists.
Malformed(file) ==
  /\ IsFile(file)
  /\ \/ file.st # "json"
     \/ \E k \in DOMAIN file.doc : file.doc[k] = NotAList

\* The file is there and does not parse, or is no object, or holds something
\* other than a list under one of the names.
Rejected(file, names) ==
  /\ IsFile(file)
  /\ \/ file.st # "json"
     \/ \E k \in names \cap DOMAIN file.doc : file.doc[k] = NotAList

RenderErrors == {"JSONDecodeError", "TypeError", "AttributeError"}

\* C11 as stated: a render of the growing cell that finds a file which does
\* not parse or is not a mapping from names to arrays raises, and leaves
\* every file as it was.
C11_Original ==
  (GrowingRender /\ Malformed(EntryLog)) =>
    /\ pc = "returned"
    /\ result \in RenderErrors
    /\ files = entry.files

\* C11, amended: a render of the growing cell that finds a file which does
\* not parse, or whose top-level value is no mapping, or which holds
\* something other than an array under a subscribed name, raises and leaves
\* every file as it was.  A non-array under a name the cell is not
\* subscribed to goes unnoticed: the render succeeds, appends its values
\* under the subscribed names and writes that entry back as it was.
C11_MalformedLogRejected ==
  GrowingRender =>
    /\ Rejected(EntryLog, LogNames) =>
          /\ pc = "returned"
          /\ result \in RenderErrors
          /\ files = entry.files
    /\ ( /\ Malformed(EntryLog)
         /\ ~Rejected(EntryLog, LogNames)
         /\ result = "ok" ) =>
          /\ files[LogPath].st = "json"
          /\ \A k \in DOMAIN EntryLog.doc \ LogNames :
                /\ k \in DOMAIN files[LogPath].doc
                /\ files[LogPath].doc[k] = EntryLog.doc[k]
          /\ \A k \in LogNames :
                files[LogPath].doc[k] =
                  Append(IF k \in DOMAIN EntryLog.doc THEN EntryLog.doc[k]
                         ELSE << >>, call.meters[k])

\* A render has raised on a log that holds a one-entry history and a number
\* under a subscribed name, and the log is as it was.
C11_Witness ==
  /\ GrowingRender
  /\ pc = "returned"
  /\ cellDir[call.cell] = DirPath
  /\ EntryLog.st = "json"
  /\ DOMAIN EntryLog.doc = LogNames
  /\ EntryLog.doc["train_loss"] = NotAList
  /\ EntryLog.doc["epoch"] = << 1 >>
  /\ result = "AttributeError"
  /\ files[LogPath] = EntryLog

\* C9: prepare raises exactly when the directory exists on entry, and then
\* every file and every cell's dir_path is as it was; otherwise it creates
\* the directory and gives every cell its path, touching no file.
C9_PrepareFailsOnExistingDir ==
  (pc = "returned" /\ call.op = "prepare") =>
    IF entry.dirExists
    THEN /\ result = "FileExistsError"
         /\ files = entry.files
         /\ cellDir = entry.cellDir
         /\ dirExists
    ELSE /\ result = "ok"
         /\ dirExists
         /\ \A i \in DOMAIN cellList : cellDir[i] = DirPath
         /\ files = entry.files

\* prepare has failed in a second process, on a directory that holds a file
\* of the first; no cell has a directory.
C9_Witness ==
  /\ pc = "returned"
  /\ call.op = "prepare"
  /\ result = "FileExistsError"
  /\ incarnation = 1
  /\ \E p \in AllPaths : files[p].st = "json"
  /\ \A i \in DOMAIN cellList : cellDir[i] = NoDir

\* The paths a cell can write, and those of them that are files.
PathsOf(i) ==
  { BuildPath(DirPath, cellList[i].filename_template, s) : s \in StepNums }

ViewFiles(i) == { p \in PathsOf(i) : IsFile(files[p]) }

SnapshotRendered ==
  /\ cellList = SnapshotCells
  /\ pc = "returned"
  /\ call.op = "render"
  /\ result = "ok"

\* C10 as stated: after a render of a JSONCell there is exactly one snapshot
\* file of its view, holding the values of that render.
C10_Original ==
  SnapshotRendered =>
    /\ Cardinality(ViewFiles(call.cell)) = 1
    /\ \A p \in ViewFiles(call.cell) : files[p] = JsonDump(call.meters)

\* C10, amended: a render of a JSONCell overwrites the one file named by its
\* template formatted with the step number: that file then holds the values
\* of this render only, under exactly the subscribed names, and no other
\* file changes.  A template without a replacement field gives the view a
\* single file; the default template gives every step number its own file.
C10_SnapshotPerFormattedName ==
  SnapshotRendered =>
    LET i == call.cell
        template == cellList[i].filename_template
        path == BuildPath(DirPath, template, call.step)
    IN  /\ files[path].st = "json"
        /\ DOMAIN files[path].doc = cellList[i].names
        /\ \A k \in cellList[i].names : files[path].doc[k] = call.meters[k]
        /\ \A p \in AllPaths \ {path} : files[p] = entry.files[p]
        /\ (template = FixedTemplate => ViewFiles(i) = {path})
        /\ (template = JSONTemplate =>
              \A s \in StepNums \ {call.step} :
                BuildPath(DirPath, template, s) # path)

\* The default-template view has just written step 1 beside the file of
\* step 0, which holds other values.
C10_Witness ==
  /\ SnapshotRendered
  /\ call.cell = 1
  /\ call.step = 1
  /\ files["out/metrics_0001.json"] = JsonDump(call.meters)
  /\ files["out/metrics_0000.json"].st = "json"
  /\ files["out/metrics_0000.json"] # JsonDump(call.meters)
  /\ Cardinality(ViewFiles(1)) = 2

(***************************************************************************)
(* Properties of the meters and of the registry                            *)
(***************************************************************************)

\* The meters the driver builds with skip_reset=True in the registry.
StickyKeys == {"experiment_id", "args", "best_val_preds", "model_graph"}

\* C15: a reset of the registry leaves experiment_id, args, best_val_preds
\* and model_graph exactly as they were and puts every other average or
\* value meter of the registry into the state of a new meter; a reset of the
\* best-accuracy maximum meter leaves it as it was.
C15_StickySurviveReset ==
  /\ (telPc = "returned" /\ telCall.op = "reset") =>
       \A key \in DOMAIN tel :
         IF key \in StickyKeys THEN tel[key] = entryTel.tel[key]
         ELSE CASE tel[key].kind = "Average" ->
                     /\ tel[key].n = 0
                     /\ AverageValue(tel[key]) = NaN
                [] tel[key].kind = "Value" -> tel[key].value = None
                [] OTHER -> tel[key] = entryTel.tel[key]
  /\ (telPc = "returned" /\ telCall.op = "max_reset") =>
       best_val_acc_meter = entryTel.best

\* A reset has cleared val_preds and a train_loss that held an observation,
\* and has left the payload of best_val_preds in place.
C15_Witness ==
  /\ telPc = "returned"
  /\ telCall.op = "reset"
  /\ entryTel.tel["val_preds"].value = 1
  /\ tel["val_preds"].value = None
  /\ entryTel.tel["train_loss"].n = 1
  /\ tel["train_loss"].n = 0
  /\ tel["best_val_preds"].value = 2

RECURSIVE SumOf(_)
SumOf(xs) == IF xs = << >> THEN 0 ELSE Head(xs).num + SumOf(Tail(xs))

\* The arithmetic mean of a sequence of floats.
Mean(xs) ==
  IF xs = << >> \/ \E i \in 1..Len(xs) : IsNaN(xs[i]) THEN NaN
  ELSE [k |-> "num", num |-> SumOf(xs), den |-> Len(xs)]

\* C16: the value of each average loss meter is the arithmetic mean of what
\* has been added to it since its last reset, and is not-a-number, without an
\* error, when nothing has been added since.
C16_AverageIsMean ==
  \A key \in LossKeys \cap DOMAIN tel :
    /\ tel[key].n = Len(added[key])
    /\ AverageValue(tel[key]) = Mean(added[key])
    /\ (added[key] = << >> => AverageValue(tel[key]) = NaN)

\* train_loss holds 1 and 3 and reads 4/2; val_loss holds nothing and reads
\* not-a-number.
C16_Witness ==
  /\ telPc = "returned"
  /\ telCall.op = "add"
  /\ added["train_loss"] = << Num(1), Num(3) >>
  /\ AverageValue(tel["train_loss"]) = [k |-> "num", num |-> 4, den |-> 2]
  /\ added["val_loss"] = << >>
  /\ AverageValue(tel["val_loss"]) = NaN

\* The numbers among the values added to the maximum meter.
AccNumbers == { accAdded[i] : i \in { j \in 1..Len(accAdded) : ~IsNaN(accAdded[j]) } }

\* C17: the value of the maximum meter is the largest number added to it
\* (minus infinity when none was), an add never lowers it, and add returns
\* true exactly when it has raised it.
C17_MaxIsRunningMaximum ==
  /\ IF AccNumbers = {} THEN best_val_acc_meter.max = NegInf
     ELSE /\ best_val_acc_meter.max \in AccNumbers
          /\ \A x \in AccNumbers : ~Greater(x, best_val_acc_meter.max)
  /\ (telPc = "returned" /\ telCall.op = "max_add") =>
       /\ ~Greater(entryTel.best.max, best_val_acc_meter.max)
       /\ telCall.ret = Greater(best_val_acc_meter.max, entryTel.best.max)
       /\ telCall.ret => best_val_acc_meter.max = telCall.x

\* After 1 and 2, an add of 1 has returned false and the maximum is still 2.
C17_Witness ==
  /\ telPc = "returned"
  /\ telCall.op = "max_add"
  /\ accAdded = << Num(1), Num(2), Num(1) >>
  /\ telCall.ret = FALSE
  /\ best_val_acc_meter.max = Num(2)

(***************************************************************************)
(* Properties of main                                                      *)
(***************************************************************************)

\* tel.step() of the running epoch has returned.
StepReturned == dpc = "evaluator_resets"

C13_KeysInRegistry ==
  (dpc \notin {"none", "start"} /\ error # "KeyError: evaluator meter") =>
    /\ DOMAIN tel = DOMAIN ReportingTelemetry
    /\ \A k \in DOMAIN ConfiguredSinks :
         SinkKeys(ConfiguredSinks[k]) \subseteq DOMAIN tel
    /\ DriverKeys \subseteq DOMAIN tel
    /\ error # "KeyError: registry"

\* main has run all its epochs with the three sinks registered.
C13_Witness ==
  /\ dpc = "done"
  /\ epoch = MaxEpochs
  /\ sinks = << "console", "folder", "showoff" >>
  /\ tel["val_preds"].value = PayloadOf(MaxEpochs - 1)
  /\ tel["experiment_id"].value = 1

\* C14: when tel.step() of an epoch is called and when it has returned,
\* train_loss and val_loss hold the observations of that epoch's batches and
\* no others, the registry having been reset after the step of the epoch
\* before.
C14_ResetEachEpoch ==
  dpc \in {"step", "evaluator_resets"} =>
    /\ tel["train_loss"].n = loaders.train
    /\ tel["val_loss"].n = loaders.val

\* C18 as stated: neither loss meter ever holds a not-a-number.
C18_Original ==
  tel # << >> => ~tel["train_loss"].nan /\ ~tel["val_loss"].nan

\* C18, amended: train_loss never holds a not-a-number: a training loss that
\* is not-a-number ends main with an error before it is added.  A validation
\* loss that is not-a-number is added to val_loss and main goes on.
C18_TrainingLossGuarded ==
  /\ tel # << >> => ~tel["train_loss"].nan
  /\ error = "training loss should not be nan" =>
       /\ dpc = "aborted"
       /\ IsNaN(loss)
       /\ tel["train_loss"].n = epoch * loaders.train + batch_i
  /\ (dpc = "train" /\ batch_i > 0) => ~IsNaN(loss)
  /\ (dpc \in {"validate", "checkpoint"} /\ tel["val_loss"].n > 0 /\ IsNaN(loss)) =>
       tel["val_loss"].nan

\* The second training batch of the second epoch has given a not-a-number:
\* main has ended with the error and train_loss holds the three losses
\* before it.
C18_Witness ==
  /\ dpc = "aborted"
  /\ error = "training loss should not be nan"
  /\ IsNaN(loss)
  /\ epoch = 1
  /\ batch_i = 1
  /\ tel["train_loss"].n = 3
  /\ ~tel["train_loss"].nan

\* The meters of an evaluator that has been fed the first n batches of a pass.
RECURSIVE FedBatches(_, _, _)
FedBatches(phase, e, n) ==
  IF n = 0 THEN EvaluatorInit
  ELSE EvaluatorAdd(FedBatches(phase, e, n - 1),
                    IF phase = "train" THEN TrainBatchAt(e, n) ELSE ValBatchAt(e, n))

\* C19: when tel.step() of epoch e is called and until the evaluators are
\* reset after it, train_eval holds the observations of the training batches
\* of epoch e and nothing else, and val_eval those of its validation
\* batches; when a pass begins its evaluator holds nothing.
C19_EvaluatorsPerEpoch ==
  /\ dpc \in {"step", "evaluator_resets"} =>
       /\ train_eval = FedBatches("train", epoch, loaders.train)
       /\ val_eval = FedBatches("val", epoch, loaders.val)
  /\ (dpc = "train" /\ batch_i = 0) => train_eval = EvaluatorInit
  /\ (dpc \in {"train", "validate"} /\ batch_i = 0) => val_eval = EvaluatorInit

\* tel.step() of the second epoch is about to be called: both evaluators
\* hold observations, and other ones than at the step of the first epoch.
C19_Witness ==
  /\ dpc = "step"
  /\ epoch = 1
  /\ train_eval["all"].n = 3
  /\ train_eval["rankle"] = [n |-> 1, sum |-> 1]
  /\ train_eval # FedBatches("train", 0, loaders.train)
  /\ val_eval["rwrist"] = [n |-> 1, sum |-> 1]
  /\ val_eval # FedBatches("val", 0, loaders.val)

\* The validation accuracy of epoch e (counted from 0), and whether it is a
\* number above all those of the epochs before.
AccOf(e) == accAdded[e + 1]

RaisedMax(e) ==
  /\ ~IsNaN(AccOf(e))
  /\ \A d \in 0..(e - 1) : IsNaN(AccOf(d)) \/ Greater(AccOf(e), AccOf(d))

\* C20: with an output directory, model-best.pth and best_val_preds are
\* those of the running epoch exactly when its validation accuracy raised
\* the maximum; a best checkpoint that exists is of an epoch whose accuracy
\* no epoch so far exceeds, best_val_preds is of the same epoch, and the
\* folder sink is handed that best_val_preds in the step of the epoch.
C20_BestFollowsMaximum ==
  (exp_out_dir # NoDir /\ dpc \in {"step", "evaluator_resets"}) =>
    /\ checkpoints.best.epoch = epoch + 1 <=> RaisedMax(epoch)
    /\ tel["best_val_preds"].value = PayloadOf(epoch) <=> RaisedMax(epoch)
    /\ checkpoints.best.epoch > 0 =>
         /\ checkpoints.best.val_acc = AccOf(checkpoints.best.epoch - 1)
         /\ \A d \in 0..epoch : ~Greater(AccOf(d), checkpoints.best.val_acc)
         /\ tel["best_val_preds"].value = PayloadOf(checkpoints.best.epoch - 1)
    /\ (StepReturned /\ "folder" \in stepLog.rendered) =>
         stepLog.seen.best_val_preds = tel["best_val_preds"].value

\* The second epoch has raised the maximum from 1 to 2: the best checkpoint
\* and best_val_preds are its own, and the folder sink has been handed them.
C20_Witness ==
  /\ exp_out_dir # NoDir
  /\ StepReturned
  /\ epoch = 1
  /\ accAdded = << Num(1), Num(2) >>
  /\ checkpoints.best = [epoch |-> 2, val_acc |-> Num(2)]
  /\ tel["best_val_preds"].value = PayloadOf(1)
  /\ "folder" \in stepLog.rendered
  /\ stepLog.seen.best_val_preds = PayloadOf(1)

\* C21: with the PCKhEvaluator of eval.py, whose meters have the keys
\* 'all' and the sixteen joint names, every lookup main makes in an
\* evaluator's meters ('total_mpii' and 'all' in Reporting.__init__,
\* 'total_mpii' when the validation accuracy is read) finds its key: main
\* never ends with a KeyError from an evaluator.
C21_EvaluatorLookupsSucceed ==
  evaluatorKeys = MeterNames => error # "KeyError: evaluator meter"

====
